---- MODULE Spec2Model ----
(***************************************************************************)
(* Model of the docker-registry TUI (src/run.py, src/dreg/selectable_row.py) *)
(*                                                                         *)
(* The program is a single-threaded urwid application.  Its state is the   *)
(* widget objects created at module load (the frames of the five panes,    *)
(* the focus positions of the three containers), the menu objects built by *)
(* the open_menu handlers and the weak references the row objects keep to   *)
(* them.  Every step is one key press handled to completion, or one        *)
(* reclamation of a menu object that nothing references strongly.          *)
(***************************************************************************)
EXTENDS Integers, Sequences, FiniteSets, TLC

VARIABLES
    registry,   \* what the registry client answers (dclient and its handles)
    app,        \* the widget objects of the program and the heap of menus
    exc,        \* "none", or the exception that left loop.run()
    event,      \* what the last step did (observation, not program state)
    twin        \* a second run of the program fed the same keys (SpecPair)

vars == <<registry, app, exc, event, twin>>

-----------------------------------------------------------------------------
(* Bounds of the model *)

MaxNs == 2          \* namespaces the registry may hold
MaxRepos == 2       \* repositories per namespace
MaxTags == 2        \* tags per repository
MaxPlat == 1        \* platform images per image

-----------------------------------------------------------------------------
(* Text helpers *)

Digit(d) ==
    CASE d = 0 -> "0" [] d = 1 -> "1" [] d = 2 -> "2" [] d = 3 -> "3"
      [] d = 4 -> "4" [] d = 5 -> "5" [] d = 6 -> "6" [] d = 7 -> "7"
      [] d = 8 -> "8" [] d = 9 -> "9"

RECURSIVE Str(_)
\* str(n) for n >= 0: the decimal digits of n
Str(n) == IF n < 10 THEN Digit(n) ELSE Str(n \div 10) \o Digit(n % 10)

\* Optional[str]: None is <<>>, a value t is <<t>>
None == <<>>
Some(t) == <<t>>

-----------------------------------------------------------------------------
(* The registry client: keys are index paths, names are derived from them *)

NsKey(i) == <<i>>
RepoKey(ns, j) == <<ns[1], j>>
TagKey(repo, k) == <<repo[1], repo[2], k>>

NsName(ns) == "n" \o Str(ns[1])
RepoShortName(repo) == "r" \o Str(repo[2])
\* repo.name: "<namespace>/<repository>"
RepoName(repo) == NsName(repo) \o "/" \o RepoShortName(repo)
TagName(tag) == "t" \o Str(tag[3])

\* dclient.namespaces()
Namespaces(reg) == [i \in 1..reg.ns |-> NsKey(i)]
\* dclient.repositories(namespace=ns).values()
Repositories(reg, ns) == [j \in 1..reg.repos[ns[1]] |-> RepoKey(ns, j)]
\* repo.tags()
Tags(reg, repo) == [k \in 1..reg.tags[repo[2]] |-> TagKey(repo, k)]
\* the platform of the p-th platform image of an image
PlatformOf(p) == IF p % 2 = 1 THEN "linux/amd64" ELSE "linux/arm64"
\* repo.get_image(tag).get_platform_images()
PlatformImages(reg, tag) ==
    [p \in 1..reg.plats[tag[3]] |-> [image |-> tag, index |-> p, platform |-> PlatformOf(p)]]

Max(x, y) == IF x >= y THEN x ELSE y

\* child counts falling by one from child to child: top, top - 1, ..., 0
Stair(n, top) == [i \in 1..n |-> Max(0, top - (i - 1))]

\* a registry of a namespaces, the first with b repositories, a repository's
\* first tag list with c tags, the first tag's image with d platform images;
\* DREG_PREFERRED_PLATFORM is left unset
Registry(a, b, c, d) ==
    [ns |-> a,
     repos |-> Stair(MaxNs, b),
     tags |-> Stair(MaxRepos, c),
     plats |-> Stair(MaxTags, d),
     preferred_platform |-> None]

Registries ==
    {Registry(a, b, c, d) :
        a \in 0..MaxNs, b \in 0..MaxRepos, c \in 0..MaxTags, d \in 0..MaxPlat}

-----------------------------------------------------------------------------
(* Text widgets: urwid.Text and ChangingText (run.py 400-410) *)

NoWidget == [kind |-> "none", text |-> "", initial_markup |-> "", change_fmt |-> ""]
Text(markup) == [kind |-> "Text", text |-> markup, initial_markup |-> "", change_fmt |-> ""]
\* change_fmt is the text of the format before its "{}" placeholder
ChangingText(markup, change_fmt) ==
    [kind |-> "ChangingText", text |-> markup, initial_markup |-> markup,
     change_fmt |-> change_fmt]

set_text(w, markup) == [w EXCEPT !.text = markup]
\* self.set_text(self.change_fmt.format(value))
change_heading(w, value) == set_text(w, w.change_fmt \o value)
\* self.set_text(self.initial_markup)
ChangingText_reset(w) == set_text(w, w.initial_markup)

-----------------------------------------------------------------------------
(* Frames.  A body is a menu of the heap (an identity >= 1), the SolidFill *)
(* of an empty display pane, or the pile of the display column.            *)

SolidFill == 0
DisplayPile == 0 - 1

Frame(body, header, footer) == [body |-> body, header |-> header, footer |-> footer]

ResettableFrame(body, header, footer) ==
    [body |-> body, header |-> header, footer |-> footer,
     orig_body |-> body,
     orig_header_text |-> IF header.kind = "Text" THEN Some(header.text) ELSE None,
     orig_footer_text |-> IF footer.kind = "Text" THEN Some(footer.text) ELSE None]

ResettableFrame_reset(f) ==
    LET f1 == [f EXCEPT !.body = f.orig_body]
        f2 == IF f1.header.kind = "none" THEN f1
              ELSE IF f1.header.kind = "ChangingText"
                   THEN [f1 EXCEPT !.header = ChangingText_reset(@)]
              ELSE IF f1.orig_footer_text # None
                   THEN [f1 EXCEPT !.header = set_text(@, f1.orig_header_text[1])]
              ELSE f1
        f3 == IF f2.footer.kind = "none" THEN f2
              ELSE IF f2.footer.kind = "ChangingText"
                   THEN [f2 EXCEPT !.footer = ChangingText_reset(@)]
              ELSE IF f2.orig_footer_text # None
                   THEN [f2 EXCEPT !.footer = set_text(@, f2.orig_footer_text[1])]
              ELSE f2
    IN f3

-----------------------------------------------------------------------------
(* Menus and rows.  A row object keeps `menu`, the weak reference to the   *)
(* menu it built last.  NoMenu stands for None and for a reference whose   *)
(* target the collector has freed: `if menu:` passes for the latter, but   *)
(* menu() then gives None and every handler falls through to the same      *)
(* rebuild (run.py 231-238, 288-293, 343-348, 385-390).                    *)

NoMenu == 0
NoOwner == <<>>

\* NamespaceMenu(ns), RepositoryMenu(repo), TagChoice(repo, tag): self.menu = None
NamespaceMenu(ns) == [class |-> "NamespaceMenu", key |-> ns, menu |-> NoMenu]
RepositoryMenu(repo) == [class |-> "RepositoryMenu", key |-> repo, menu |-> NoMenu]
TagChoice(tag) == [class |-> "TagChoice", key |-> tag, menu |-> NoMenu]

\* make_menu(choices): a new list box over the rows, its focus on the first.
\* owner records the row object the menu was built for (NoOwner at start-up).
make_menu(choices, owner) == [rows |-> choices, focus |-> 0, owner |-> owner]

\* listbox.body_len()
body_len(menu) == Len(menu.rows)

\* Identities of menus.  The three menus of module load come first; a menu
\* built by a row gets the least free identity among those set aside for the
\* row's key, so that an identity names the same row in every run.
Base == 1 + Max(MaxNs, Max(MaxRepos, MaxTags))
Generations == 4

RECURSIVE Code(_)
Code(key) ==
    IF key = <<>> THEN 0
    ELSE Code(SubSeq(key, 1, Len(key) - 1)) * Base + key[Len(key)]

IdsOf(key) == {3 + (Code(key) - 1) * Generations + g : g \in 1..Generations}

NewId(heap, key) ==
    CHOOSE n \in IdsOf(key) :
        /\ n \notin DOMAIN heap
        /\ \A m \in IdsOf(key) : m < n => m \in DOMAIN heap

Alloc(heap, id, menu) == [i \in DOMAIN heap \cup {id} |-> IF i = id THEN menu ELSE heap[i]]

\* actual_menu = menu(): the referent, if the reference is set and its target lives
Resolvable(s, ref) == ref # NoMenu /\ ref \in DOMAIN s.heap

\* a row object, addressed by the menu holding it and its position there
NodeAt(s, node) == s.heap[node[1]].rows[node[2]]

\* self.menu = weakref.ref(actual_menu)
SetSlot(s, node, id) == [s EXCEPT !.heap[node[1]].rows[node[2]].menu = id]

-----------------------------------------------------------------------------
(* Reclamation.  Only the frames reference menus strongly.                 *)

Roots(s) ==
    {s.namespaces_frame.body, s.images_frame.body, s.tags_frame.body,
     s.tags_frame.orig_body, s.platforms_frame.body, s.platforms_frame.orig_body,
     s.layers_frame.body, s.layers_frame.orig_body} \cap DOMAIN s.heap

Garbage(s) == DOMAIN s.heap \ Roots(s)

\* menus built for a row of one of the menus in D
ChildrenOf(heap, D) ==
    {c \in DOMAIN heap : heap[c].owner # NoOwner /\ heap[c].owner[1] \in D}

\* D and what only rows of D could still resolve: the rows go with their menu
Subtree(heap, D) ==
    LET d1 == D \cup ChildrenOf(heap, D)
        d2 == d1 \cup ChildrenOf(heap, d1)
    IN d2 \cup ChildrenOf(heap, d2)

\* the collector frees the unreachable menus D: every reference to one is dead
Sweep(s, D) ==
    LET gone == Subtree(s.heap, D) \ Roots(s)
        keep == DOMAIN s.heap \ gone
    IN [s EXCEPT !.heap =
            [i \in keep |->
                [s.heap[i] EXCEPT !.rows =
                    [r \in DOMAIN s.heap[i].rows |->
                        IF s.heap[i].rows[r].menu \in gone
                        THEN [s.heap[i].rows[r] EXCEPT !.menu = NoMenu]
                        ELSE s.heap[i].rows[r]]]]]

\* unreachable menus that no row ever referred to: nothing can observe them
Unowned(s) == {g \in Garbage(s) : s.heap[g].owner = NoOwner}

\* the states the collector may leave after a handler ran: it may free any
\* of the unreachable menus, or none of them
Collected(s) ==
    LET s0 == Sweep(s, Unowned(s))
    IN {Sweep(s0, D) : D \in SUBSET Garbage(s0)}

-----------------------------------------------------------------------------
(* The program at start-up (run.py 479-562) *)

\* positions in menus_frame (PileMenu: frame, divider, frame, divider, frame)
NamespacesPos == 0
ImagesPos == 2
TagsPos == 4
\* positions in display_pile (platforms_frame, divider, layers_frame)
PlatformsPos == 0
LayersPos == 2
\* columns of container
MenusColumn == 0
DisplayColumn == 1

\* the identities of the three menus built at module load
NamespacesMenuId == 1
ImagesEmptyId == 2
TagsEmptyId == 3

Startup(reg) ==
    LET namespaces == Namespaces(reg)
        choices == [i \in 1..Len(namespaces) |-> NamespaceMenu(namespaces[i])]
    IN [heap |-> [i \in NamespacesMenuId..TagsEmptyId |->
                     IF i = NamespacesMenuId THEN make_menu(choices, NoOwner)
                     ELSE make_menu(<<>>, NoOwner)],
        namespaces_frame |-> Frame(NamespacesMenuId, Text("Namespaces"),
                                   Text(Str(Len(namespaces)) \o " namespaces")),
        images_frame |-> Frame(ImagesEmptyId, ChangingText("Images", "Images: "), Text("")),
        tags_frame |-> ResettableFrame(TagsEmptyId, ChangingText("Tags", "Tags: "), Text("")),
        platforms_frame |-> ResettableFrame(SolidFill, NoWidget, NoWidget),
        layers_frame |-> ResettableFrame(SolidFill, NoWidget, NoWidget),
        display_frame |-> ResettableFrame(DisplayPile, ChangingText("", ""), NoWidget),
        menus_focus |-> NamespacesPos,
        display_focus |-> PlatformsPos,
        container_focus |-> MenusColumn]

\* reset_display without platforms_frame.reset()
reset_display_keeps_platforms(s) ==
    [s EXCEPT !.layers_frame = ResettableFrame_reset(@),
              !.display_frame = ResettableFrame_reset(@)]

reset_display(s) ==
    [s EXCEPT !.layers_frame = ResettableFrame_reset(@),
              !.platforms_frame = ResettableFrame_reset(@),
              !.display_frame = ResettableFrame_reset(@)]

-----------------------------------------------------------------------------
(* What a handler leaves: the program, the exception that left it ("none"  *)
(* if it returned), the registry calls it made, the rows it constructed,   *)
(* and whether the cached menu was served.                                 *)

Outcome(s, e, calls, built, hit) ==
    [app |-> s, exc |-> e, calls |-> calls, built |-> built, hit |-> hit]

\* "<n> <plural>", but "1 <singular>" for one item (run.py 334-338, 376-380)
CountText(item_count, singular, plural) ==
    IF item_count = 1 THEN "1 " \o singular ELSE Str(item_count) \o " " \o plural

-----------------------------------------------------------------------------
(* NamespaceMenu (run.py 358-397) *)

\* _open_menu without tags_frame.reset()
NamespaceMenu__open_menu_keeps_tags(s, node, menu) ==
    LET self == NodeAt(s, node)
        s1 == reset_display(s)
        s3 == [s1 EXCEPT !.images_frame.body = menu]
        s4 == [s3 EXCEPT !.images_frame.header = change_heading(@, NsName(self.key))]
        item_count == body_len(s.heap[menu])
        s5 == [s4 EXCEPT !.images_frame.footer =
                            set_text(@, CountText(item_count, "image", "images"))]
    IN [s5 EXCEPT !.menus_focus = ImagesPos]

NamespaceMenu__open_menu(s, node, menu) ==
    LET self == NodeAt(s, node)
        s1 == reset_display(s)
        s2 == [s1 EXCEPT !.tags_frame = ResettableFrame_reset(@)]
        s3 == [s2 EXCEPT !.images_frame.body = menu]
        s4 == [s3 EXCEPT !.images_frame.header = change_heading(@, NsName(self.key))]
        item_count == body_len(s.heap[menu])
        s5 == [s4 EXCEPT !.images_frame.footer =
                            set_text(@, CountText(item_count, "image", "images"))]
    IN [s5 EXCEPT !.menus_focus = ImagesPos]

\* open_menu that never looks at self.menu
NamespaceMenu_open_menu_uncached(s, reg, node, fails) ==
    LET self == NodeAt(s, node)
    IN IF fails = "repositories"
       THEN Outcome(s, "RegistryError", <<"repositories">>, 0, FALSE)
       ELSE LET repositories == Repositories(reg, self.key)
                choices == [j \in 1..Len(repositories) |-> RepositoryMenu(repositories[j])]
                actual_menu == NewId(s.heap, self.key)
                s1 == [s EXCEPT !.heap = Alloc(@, actual_menu, make_menu(choices, node))]
                s2 == SetSlot(s1, node, actual_menu)
            IN Outcome(NamespaceMenu__open_menu(s2, node, actual_menu), "none",
                       <<"repositories">>, Len(choices), FALSE)

\* open_menu that resets the display before it asks the registry
NamespaceMenu_open_menu_resets_first(s, reg, node, fails) ==
    LET self == NodeAt(s, node)
        menu == self.menu
    IN IF Resolvable(s, menu)
       THEN Outcome(NamespaceMenu__open_menu(s, node, menu), "none", <<>>, 0, TRUE)
       ELSE IF fails = "repositories"
       THEN Outcome(reset_display(s), "RegistryError", <<"repositories">>, 0, FALSE)
       ELSE LET repositories == Repositories(reg, self.key)
                choices == [j \in 1..Len(repositories) |-> RepositoryMenu(repositories[j])]
                actual_menu == NewId(s.heap, self.key)
                s1 == [s EXCEPT !.heap = Alloc(@, actual_menu, make_menu(choices, node))]
                s2 == SetSlot(s1, node, actual_menu)
            IN Outcome(NamespaceMenu__open_menu(s2, node, actual_menu), "none",
                       <<"repositories">>, Len(choices), FALSE)

\* open_menu whose cached path only swaps the body in
NamespaceMenu_open_menu_hit_swaps_body(s, reg, node, fails) ==
    LET self == NodeAt(s, node)
        menu == self.menu
    IN IF Resolvable(s, menu)
       THEN Outcome([s EXCEPT !.images_frame.body = menu], "none", <<>>, 0, TRUE)
       ELSE IF fails = "repositories"
       THEN Outcome(s, "RegistryError", <<"repositories">>, 0, FALSE)
       ELSE LET repositories == Repositories(reg, self.key)
                choices == [j \in 1..Len(repositories) |-> RepositoryMenu(repositories[j])]
                actual_menu == NewId(s.heap, self.key)
                s1 == [s EXCEPT !.heap = Alloc(@, actual_menu, make_menu(choices, node))]
                s2 == SetSlot(s1, node, actual_menu)
            IN Outcome(NamespaceMenu__open_menu(s2, node, actual_menu), "none",
                       <<"repositories">>, Len(choices), FALSE)

NamespaceMenu_open_menu(s, reg, node, fails) ==
    LET self == NodeAt(s, node)
        menu == self.menu
    IN IF Resolvable(s, menu)
       THEN Outcome(NamespaceMenu__open_menu(s, node, menu), "none", <<>>, 0, TRUE)
       ELSE IF fails = "repositories"
       THEN Outcome(s, "RegistryError", <<"repositories">>, 0, FALSE)
       ELSE LET repositories == Repositories(reg, self.key)
                choices == [j \in 1..Len(repositories) |-> RepositoryMenu(repositories[j])]
                actual_menu == NewId(s.heap, self.key)
                s1 == [s EXCEPT !.heap = Alloc(@, actual_menu, make_menu(choices, node))]
                s2 == SetSlot(s1, node, actual_menu)
            IN Outcome(NamespaceMenu__open_menu(s2, node, actual_menu), "none",
                       <<"repositories">>, Len(choices), FALSE)

-----------------------------------------------------------------------------
(* RepositoryMenu (run.py 317-355) *)

RepositoryMenu__open_menu(s, node, menu) ==
    LET self == NodeAt(s, node)
        s1 == reset_display(s)
        s2 == [s1 EXCEPT !.tags_frame.body = menu]
        s3 == [s2 EXCEPT !.tags_frame.header = change_heading(@, RepoName(self.key))]
        item_count == body_len(s.heap[menu])
        s4 == [s3 EXCEPT !.tags_frame.footer =
                            set_text(@, CountText(item_count, "tag", "tags"))]
    IN [s4 EXCEPT !.menus_focus = TagsPos]

\* open_menu that adds the tag rows three times
RepositoryMenu_open_menu_tripled(s, reg, node, fails) ==
    LET self == NodeAt(s, node)
        menu == self.menu
    IN IF Resolvable(s, menu)
       THEN Outcome(RepositoryMenu__open_menu(s, node, menu), "none", <<>>, 0, TRUE)
       ELSE IF fails = "tags"
       THEN Outcome(s, "RegistryError", <<"tags">>, 0, FALSE)
       ELSE LET tags == Tags(reg, self.key)
                once == [k \in 1..Len(tags) |-> TagChoice(tags[k])]
                choices == once \o once \o once
                actual_menu == NewId(s.heap, self.key)
                s1 == [s EXCEPT !.heap = Alloc(@, actual_menu, make_menu(choices, node))]
                s2 == SetSlot(s1, node, actual_menu)
            IN Outcome(RepositoryMenu__open_menu(s2, node, actual_menu), "none",
                       <<"tags">>, Len(choices), FALSE)

\* open_menu that never looks at self.menu
RepositoryMenu_open_menu_uncached(s, reg, node, fails) ==
    LET self == NodeAt(s, node)
    IN IF fails = "tags"
       THEN Outcome(s, "RegistryError", <<"tags">>, 0, FALSE)
       ELSE LET tags == Tags(reg, self.key)
                choices == [k \in 1..Len(tags) |-> TagChoice(tags[k])]
                actual_menu == NewId(s.heap, self.key)
                s1 == [s EXCEPT !.heap = Alloc(@, actual_menu, make_menu(choices, node))]
                s2 == SetSlot(s1, node, actual_menu)
            IN Outcome(RepositoryMenu__open_menu(s2, node, actual_menu), "none",
                       <<"tags">>, Len(choices), FALSE)

\* open_menu whose rebuild path only swaps the body in
RepositoryMenu_open_menu_bare(s, reg, node, fails) ==
    LET self == NodeAt(s, node)
        menu == self.menu
    IN IF Resolvable(s, menu)
       THEN Outcome(RepositoryMenu__open_menu(s, node, menu), "none", <<>>, 0, TRUE)
       ELSE IF fails = "tags"
       THEN Outcome(s, "RegistryError", <<"tags">>, 0, FALSE)
       ELSE LET tags == Tags(reg, self.key)
                choices == [k \in 1..Len(tags) |-> TagChoice(tags[k])]
                actual_menu == NewId(s.heap, self.key)
                s1 == [s EXCEPT !.heap = Alloc(@, actual_menu, make_menu(choices, node))]
                s2 == SetSlot(s1, node, actual_menu)
            IN Outcome([s2 EXCEPT !.tags_frame.body = actual_menu], "none",
                       <<"tags">>, Len(choices), FALSE)

RepositoryMenu_open_menu(s, reg, node, fails) ==
    LET self == NodeAt(s, node)
        menu == self.menu
    IN IF Resolvable(s, menu)
       THEN Outcome(RepositoryMenu__open_menu(s, node, menu), "none", <<>>, 0, TRUE)
       ELSE IF fails = "tags"
       THEN Outcome(s, "RegistryError", <<"tags">>, 0, FALSE)
       ELSE LET tags == Tags(reg, self.key)
                choices == [k \in 1..Len(tags) |-> TagChoice(tags[k])]
                actual_menu == NewId(s.heap, self.key)
                s1 == [s EXCEPT !.heap = Alloc(@, actual_menu, make_menu(choices, node))]
                s2 == SetSlot(s1, node, actual_menu)
            IN Outcome(RepositoryMenu__open_menu(s2, node, actual_menu), "none",
                       <<"tags">>, Len(choices), FALSE)

-----------------------------------------------------------------------------
(* BetterSelectableRow (selectable_row.py 17-34) and the rows built on it  *)

\* an element of `contents`: a plain text, or a tuple (text, settings)
PlainContent == [tuple |-> FALSE, settings |-> "none"]
TupleContent(settings) == [tuple |-> TRUE, settings |-> settings]

\* c_settings.pop("width", None) and **c_settings need a dict
BetterSelectableRow_raises(contents) ==
    \E i \in 1..Len(contents) : contents[i].tuple /\ contents[i].settings # "dict"

\* PlatformChoice.__init__: [platform_name, digest, (size, urwid.RIGHT)];
\* urwid.RIGHT is the alignment name, a str
PlatformChoice_contents == <<PlainContent, PlainContent, TupleContent("str")>>

PlatformChoice_raises(pimage) == BetterSelectableRow_raises(PlatformChoice_contents)

\* PlatformChoice(pimage): self.menu = None, self.viewer = None
PlatformChoice(pimage) ==
    [class |-> "PlatformChoice", key |-> pimage, menu |-> NoMenu, viewer |-> NoMenu]

-----------------------------------------------------------------------------
(* TagChoice (run.py 267-314) *)

\* the platform images to show (run.py 297-308)
SelectPimages(preferred, all) ==
    IF preferred # None
    THEN LET others == SelectSeq(all, LAMBDA p : p.platform # preferred[1])
             matching == SelectSeq(all, LAMBDA p : p.platform = preferred[1])
         IN IF matching # <<>> THEN <<matching[Len(matching)]>> \o others ELSE others
    ELSE all

\* _open_menu without container.focus_position = 1
TagChoice__open_menu_stays(s, node, menu) ==
    LET self == NodeAt(s, node)
        repo == <<self.key[1], self.key[2]>>
        s1 == reset_display(s)
        s2 == [s1 EXCEPT !.display_frame.header =
                            set_text(@, RepoName(repo) \o " - " \o TagName(self.key))]
        s3 == [s2 EXCEPT !.platforms_frame.body = menu]
    IN [s3 EXCEPT !.display_focus = PlatformsPos]

TagChoice__open_menu(s, node, menu) ==
    LET self == NodeAt(s, node)
        repo == <<self.key[1], self.key[2]>>
        s1 == reset_display(s)
        s2 == [s1 EXCEPT !.display_frame.header =
                            set_text(@, RepoName(repo) \o " - " \o TagName(self.key))]
        s3 == [s2 EXCEPT !.platforms_frame.body = menu]
        s4 == [s3 EXCEPT !.container_focus = DisplayColumn]
    IN [s4 EXCEPT !.display_focus = PlatformsPos]

TagChoice_open_menu(s, reg, node, fails) ==
    LET self == NodeAt(s, node)
        menu == self.menu
    IN IF Resolvable(s, menu)
       THEN Outcome(TagChoice__open_menu(s, node, menu), "none", <<>>, 0, TRUE)
       ELSE IF fails = "get_image"
       THEN Outcome(s, "RegistryError", <<"get_image">>, 0, FALSE)
       ELSE IF fails = "get_platform_images"
       THEN Outcome(s, "RegistryError", <<"get_image", "get_platform_images">>, 0, FALSE)
       ELSE LET pimages == SelectPimages(reg.preferred_platform,
                                         PlatformImages(reg, self.key))
                calls == <<"get_image", "get_platform_images">>
            IN IF \E p \in 1..Len(pimages) : PlatformChoice_raises(pimages[p])
               THEN Outcome(s, "AttributeError", calls, 0, FALSE)
               ELSE LET choices == [p \in 1..Len(pimages) |-> PlatformChoice(pimages[p])]
                        actual_menu == NewId(s.heap, self.key)
                        s1 == [s EXCEPT !.heap =
                                  Alloc(@, actual_menu, make_menu(choices, node))]
                        s2 == SetSlot(s1, node, actual_menu)
                    IN Outcome(TagChoice__open_menu(s2, node, actual_menu), "none",
                               calls, Len(choices), FALSE)

-----------------------------------------------------------------------------
(* Keys (run.py 564-565: the main loop, keyboard only).  The list box of   *)
(* the focused pane takes up and down while its focus can move; otherwise  *)
(* the pile moves to the next selectable pane.  The columns take left and  *)
(* right.                                                                  *)

FocusFrame(s) ==
    IF s.container_focus = MenusColumn
    THEN CASE s.menus_focus = NamespacesPos -> s.namespaces_frame
           [] s.menus_focus = ImagesPos -> s.images_frame
           [] OTHER -> s.tags_frame
    ELSE IF s.display_focus = PlatformsPos THEN s.platforms_frame ELSE s.layers_frame

\* the menu shown in the focused pane, NoMenu if the pane shows none
FocusMenu(s) ==
    IF FocusFrame(s).body \in DOMAIN s.heap THEN FocusFrame(s).body ELSE NoMenu

\* a frame is selectable when its body is a list box
Selectable(f) == f.body # SolidFill

MoveCursor(s, d) == [s EXCEPT !.heap[FocusMenu(s)].focus = @ + d]

KeyUp(s) ==
    LET m == FocusMenu(s)
    IN IF m # NoMenu /\ s.heap[m].focus > 0 THEN MoveCursor(s, 0 - 1)
       ELSE IF s.container_focus = MenusColumn
       THEN IF s.menus_focus > NamespacesPos
            THEN [s EXCEPT !.menus_focus = @ - 2] ELSE s
       ELSE IF s.display_focus = LayersPos /\ Selectable(s.platforms_frame)
            THEN [s EXCEPT !.display_focus = PlatformsPos] ELSE s

KeyDown(s) ==
    LET m == FocusMenu(s)
    IN IF m # NoMenu /\ s.heap[m].focus + 1 < body_len(s.heap[m]) THEN MoveCursor(s, 1)
       ELSE IF s.container_focus = MenusColumn
       THEN IF s.menus_focus < TagsPos
            THEN [s EXCEPT !.menus_focus = @ + 2] ELSE s
       ELSE IF s.display_focus = PlatformsPos /\ Selectable(s.layers_frame)
            THEN [s EXCEPT !.display_focus = LayersPos] ELSE s

KeyLeft(s) ==
    IF s.container_focus = DisplayColumn
    THEN [s EXCEPT !.container_focus = MenusColumn] ELSE s

KeyRight(s) ==
    IF /\ s.container_focus = MenusColumn
       /\ (Selectable(s.platforms_frame) \/ Selectable(s.layers_frame))
    THEN [s EXCEPT !.container_focus = DisplayColumn] ELSE s

\* the row the enter key activates: the focused row of the focused menu
FocusNode(s) ==
    LET m == FocusMenu(s)
    IN IF m # NoMenu /\ body_len(s.heap[m]) > 0 THEN <<m, s.heap[m].focus + 1>> ELSE <<>>

\* the row's "click" callback: cb(self.open_menu)
open_menu(s, reg, node, fails) ==
    LET class == NodeAt(s, node).class
    IN CASE class = "NamespaceMenu" -> NamespaceMenu_open_menu(s, reg, node, fails)
         [] class = "RepositoryMenu" -> RepositoryMenu_open_menu(s, reg, node, fails)
         [] class = "TagChoice" -> TagChoice_open_menu(s, reg, node, fails)

KeyEnter(s, reg, fails) == open_menu(s, reg, FocusNode(s), fails)

-----------------------------------------------------------------------------
(* What the screen shows *)

PaneView(s, f) ==
    [rows |-> IF f.body \in DOMAIN s.heap
              THEN [i \in 1..body_len(s.heap[f.body]) |-> s.heap[f.body].rows[i].key]
              ELSE <<>>,
     selected |-> IF f.body \in DOMAIN s.heap THEN s.heap[f.body].focus ELSE 0,
     menu |-> f.body # SolidFill,
     header |-> f.header.text,
     footer |-> f.footer.text]

View(s) ==
    [namespaces |-> PaneView(s, s.namespaces_frame),
     images |-> PaneView(s, s.images_frame),
     tags |-> PaneView(s, s.tags_frame),
     platforms |-> PaneView(s, s.platforms_frame),
     layers |-> PaneView(s, s.layers_frame),
     display_header |-> s.display_frame.header.text,
     focus |-> <<s.container_focus, s.menus_focus, s.display_focus>>]

\* the pane that has the input focus
FocusPane(s) ==
    IF s.container_focus = MenusColumn
    THEN CASE s.menus_focus = NamespacesPos -> "namespaces"
           [] s.menus_focus = ImagesPos -> "images"
           [] OTHER -> "tags"
    ELSE IF s.display_focus = PlatformsPos THEN "platforms" ELSE "layers"

-----------------------------------------------------------------------------------------------------------------------------------------------------
(* Observations of a run *)

NoNode == <<>>

\* how many of the four panes below the namespaces show a menu
Depth(s) ==
    CASE s.layers_frame.body # s.layers_frame.orig_body -> 4
      [] s.platforms_frame.body # s.platforms_frame.orig_body -> 3
      [] s.tags_frame.body # s.tags_frame.orig_body -> 2
      [] s.images_frame.body # ImagesEmptyId -> 1
      [] OTHER -> 0

\* whether the row's weak reference resolved when the handler started
Cached(s, node) == Resolvable(s, NodeAt(s, node).menu)

\* a handler ran on row `node` of program s and left `out`
Event(op, s, node, out) ==
    [op |-> op, node |-> node, depth |-> Depth(s), cached |-> Cached(s, node),
     done |-> out.exc = "none", hit |-> out.hit, calls |-> out.calls,
     built |-> out.built]

Quiet(op) == [op |-> op, node |-> NoNode, depth |-> 0, cached |-> FALSE,
              done |-> FALSE, hit |-> FALSE, calls |-> <<>>, built |-> 0]

Selection(op) == op = "NamespaceMenu" \/ op = "RepositoryMenu" \/ op = "TagChoice"

\* the pane a selection of a row of this class fills
PaneOf(s, class) ==
    CASE class = "NamespaceMenu" -> s.images_frame
      [] class = "RepositoryMenu" -> s.tags_frame
      [] class = "TagChoice" -> s.platforms_frame

-----------------------------------------------------------------------------
(* The program as a state machine *)

Init ==
    /\ registry \in Registries
    /\ app = Startup(registry)
    /\ exc = "none"
    /\ event = Quiet("start")
    /\ twin = <<>>

\* a key that moves the focus: up, down, left or right
Move(next) ==
    /\ exc = "none"
    /\ next # app
    /\ app' = next
    /\ event' = Quiet("key")
    /\ UNCHANGED <<registry, exc, twin>>

PressUp == Move(KeyUp(app))
PressDown == Move(KeyDown(app))
PressLeft == Move(KeyLeft(app))
PressRight == Move(KeyRight(app))

\* enter on the focused row; the registry call it makes may fail
Select(class, failures) ==
    /\ exc = "none"
    /\ FocusNode(app) # NoNode
    /\ NodeAt(app, FocusNode(app)).class = class
    /\ \E k \in 1..Len(failures) :
         LET out == KeyEnter(app, registry, failures[k])
         IN /\ exc' = out.exc
            /\ event' = Event(class, app, FocusNode(app), out)
            /\ app' \in IF out.exc = "none" THEN Collected(out.app) ELSE {out.app}
    /\ UNCHANGED <<registry, twin>>

SelectNamespace == Select("NamespaceMenu", <<"none", "repositories">>)
SelectRepository == Select("RepositoryMenu", <<"none", "tags">>)
SelectTag == Select("TagChoice", <<"none", "get_image", "get_platform_images">>)

\* the collector frees a menu that no frame shows
Collect ==
    /\ exc = "none"
    /\ \E id \in Garbage(app) : app' = Sweep(app, {id})
    /\ event' = Quiet("collect")
    /\ UNCHANGED <<registry, exc, twin>>

Next ==
    \/ PressUp
    \/ PressDown
    \/ PressLeft
    \/ PressRight
    \/ SelectNamespace
    \/ SelectRepository
    \/ SelectTag
    \/ Collect

Spec == Init /\ [][Next]_vars

-----------------------------------------------------------------------------
(* Two runs of the program on the same keys: `app` keeps every cached menu  *)
(* that a row refers to, `twin` loses every menu that no frame shows as     *)
(* soon as the handler returns. The registry answers both alike and never   *)
(* fails.                                                                   *)

\* the collector frees only what no row ever referred to
Kept(s) == Sweep(s, Unowned(s))

\* the collector frees every menu that no frame shows
Reclaimed(s) == Sweep(s, Garbage(s))

Run(s, e, hit) == [app |-> s, exc |-> e, hit |-> hit]

InitPair ==
    /\ registry \in Registries
    /\ app = Startup(registry)
    /\ exc = "none"
    /\ event = Quiet("start")
    /\ twin = Run(Startup(registry), "none", FALSE)

PairMove(next, twin_next) ==
    /\ exc = "none" /\ twin.exc = "none"
    /\ next # app \/ twin_next # twin.app
    /\ app' = next
    /\ twin' = Run(twin_next, "none", FALSE)
    /\ event' = Quiet("key")
    /\ UNCHANGED <<registry, exc>>

PairUp == PairMove(KeyUp(app), KeyUp(twin.app))
PairDown == PairMove(KeyDown(app), KeyDown(twin.app))
PairLeft == PairMove(KeyLeft(app), KeyLeft(twin.app))
PairRight == PairMove(KeyRight(app), KeyRight(twin.app))

PairSelect(class) ==
    /\ exc = "none" /\ twin.exc = "none"
    /\ FocusNode(app) # NoNode
    /\ NodeAt(app, FocusNode(app)).class = class
    /\ LET out == KeyEnter(app, registry, "none")
           twin_out == IF FocusNode(twin.app) # NoNode
                       THEN KeyEnter(twin.app, registry, "none")
                       ELSE Outcome(twin.app, "none", <<>>, 0, FALSE)
       IN /\ exc' = out.exc
          /\ event' = Event(class, app, FocusNode(app), out)
          /\ app' = IF out.exc = "none" THEN Kept(out.app) ELSE out.app
          /\ twin' = Run(IF twin_out.exc = "none" THEN Reclaimed(twin_out.app)
                         ELSE twin_out.app,
                         twin_out.exc, twin_out.hit)
    /\ UNCHANGED registry

PairNamespace == PairSelect("NamespaceMenu")
PairRepository == PairSelect("RepositoryMenu")
PairTag == PairSelect("TagChoice")

NextPair ==
    \/ PairUp
    \/ PairDown
    \/ PairLeft
    \/ PairRight
    \/ PairNamespace
    \/ PairRepository
    \/ PairTag

SpecPair == InitPair /\ [][NextPair]_vars

-----------------------------------------------------------------------------
(* LayerChoice.__init__ (run.py 143-184) and the helpers it calls, as a      *)
(* specification of its own: `registry` is the platform image handed to the *)
(* constructor, `event` what the last call computed and how it ended.       *)

MaxHistory == 3     \* history entries of a platform image

\* A text that str.strip() works on is the sequence of its code points, as a
\* Python str is: a character outside ASCII is one element, whatever its
\* encoding.  AsciiLow holds the characters of code points 32 to 95 in order
\* and AsciiHigh those of 97 to 126.
AsciiLow ==
    " !\"#$%&'()*+,-./0123456789:;<=>?@ABCDEFGHIJKLMNOPQRSTUVWXYZ[\\]^_"

AsciiHigh == "abcdefghijklmnopqrstuvwxyz{|}~"

\* ord(c) of an ASCII character that a string of this module can hold
ord(c) ==
    IF \E k \in 1..Len(AsciiLow) : SubSeq(AsciiLow, k, k) = c
    THEN 31 + CHOOSE k \in 1..Len(AsciiLow) : SubSeq(AsciiLow, k, k) = c
    ELSE 96 + CHOOSE k \in 1..Len(AsciiHigh) : SubSeq(AsciiHigh, k, k) = c

\* the code points of an ASCII str literal
CodePoints(literal) == [i \in 1..Len(literal) |-> ord(SubSeq(literal, i, i))]

LAYER_HISTORY_INSTR_PREFIX == CodePoints("/bin/sh -c #(nop)")
LAYER_HISTORY_INSTR_SUFFIX_BUILDKIT == CodePoints("# buildkit")

\* str.isspace() of one character, given by its code point
IsSpace(c) ==
    \/ (c >= 9 /\ c <= 13) \/ (c >= 28 /\ c <= 32)
    \/ c = 133 \/ c = 160 \/ c = 5760
    \/ (c >= 8192 /\ c <= 8202)
    \/ c = 8232 \/ c = 8233 \/ c = 8239 \/ c = 8287 \/ c = 12288

RECURSIVE lstrip(_)
lstrip(t) == IF Len(t) > 0 /\ IsSpace(Head(t)) THEN lstrip(Tail(t)) ELSE t

RECURSIVE rstrip(_)
rstrip(t) ==
    IF Len(t) > 0 /\ IsSpace(t[Len(t)])
    THEN rstrip(SubSeq(t, 1, Len(t) - 1)) ELSE t

\* str.strip()
strip(t) == rstrip(lstrip(t))

startswith(t, prefix) == Len(t) >= Len(prefix) /\ SubSeq(t, 1, Len(prefix)) = prefix

endswith(t, suffix) ==
    Len(t) >= Len(suffix) /\ SubSeq(t, Len(t) - Len(suffix) + 1, Len(t)) = suffix

clean_created_by(created_by) ==
    LET c1 == strip(created_by)
        c2 == IF startswith(c1, LAYER_HISTORY_INSTR_PREFIX)
              THEN strip(SubSeq(c1, Len(LAYER_HISTORY_INSTR_PREFIX) + 1, Len(c1)))
              ELSE c1
    IN IF endswith(c2, LAYER_HISTORY_INSTR_SUFFIX_BUILDKIT)
       THEN strip(SubSeq(c2, 1, Len(c2) - Len(LAYER_HISTORY_INSTR_SUFFIX_BUILDKIT)))
       ELSE c2

\* the largest binary unit not above num_bytes (humanfriendly's disk_size_units)
UnitOf(num_bytes) ==
    IF num_bytes >= 1024 * 1024 * 1024 THEN [divider |-> 1024 * 1024 * 1024, symbol |-> "GiB"]
    ELSE IF num_bytes >= 1024 * 1024 THEN [divider |-> 1024 * 1024, symbol |-> "MiB"]
    ELSE [divider |-> 1024, symbol |-> "KiB"]

\* '%.2f' % (num / divider) in hundredths: the quotient is exact in a float,
\* so the conversion rounds it to the nearest hundredth, ties to even
Hundredths(num, divider) ==
    LET q == (num * 100) \div divider
        r == (num * 100) % divider
    IN IF 2 * r > divider \/ (2 * r = divider /\ q % 2 = 1) THEN q + 1 ELSE q

\* round_number(): two decimals with the trailing zeros and the dot removed
round_number(num, divider) ==
    LET h == Hundredths(num, divider)
        whole == Str(h \div 100)
        frac == h % 100
    IN IF frac = 0 THEN whole
       ELSE IF frac % 10 = 0 THEN whole \o "." \o Digit(frac \div 10)
       ELSE whole \o "." \o Digit(frac \div 10) \o Digit(frac % 10)

\* humanfriendly.format_size(num_bytes, binary=True) for num_bytes >= 1024
base_format_size(num_bytes) ==
    LET unit == UnitOf(num_bytes)
    IN round_number(num_bytes, unit.divider) \o " " \o unit.symbol

format_size(num_bytes) ==
    IF num_bytes < 1024 THEN Str(num_bytes) \o " B"
    ELSE base_format_size(num_bytes)

\* the created_by texts the platform images of the model carry
CreatedBys ==
    <<CodePoints("/bin/sh -c #(nop) COPY x"),
      CodePoints("/bin/sh -c #(nop)  CMD [x] # buildkit"),
      CodePoints("RUN apt-get install curl1"),
      CodePoints("RUN apt-get install curl12"),
      <<32, 12>> \o CodePoints("/bin/sh -c #(nop)") \o <<160>>
          \o CodePoints("ADD file:0123456789abcdef0123456789 in /") \o <<8195, 32>>>>

\* the sizes of the layers of a platform image, layer by layer
LayerSizes == <<2048, 1536, 0, 1023, 1152, 5242880>>

Layer(k) == [size |-> LayerSizes[((k - 1) % Len(LayerSizes)) + 1]]

HistoryItems ==
    {[created_by |-> CreatedBys[c], empty_layer |-> e] :
        c \in 1..Len(CreatedBys), e \in BOOLEAN}

\* pimage.config.history and pimage.layers
Pimages ==
    UNION {{[history |-> h, layers |-> [k \in 1..n |-> Layer(k)]] :
                h \in [1..m -> HistoryItems], n \in 0..MaxHistory} :
           m \in 0..MaxHistory}

\* the history entries that are not empty layers, each entry being an object
\* of its own, named here by its position in the history
non_empty_history(pimage) ==
    SelectSeq([i \in 1..Len(pimage.history) |-> i],
              LAMBDA i : ~pimage.history[i].empty_layer)

\* layer_idx that counts every history entry, empty or not
LayerChoice_layer_idx_counts_empty(pimage, history_idx) == Some(history_idx - 1)

\* the loop of run.py 156-161: the index of the entry among the non-empty
\* ones, None when the loop ends without a match
LayerChoice_layer_idx(pimage, history_idx) ==
    LET non_empty == non_empty_history(pimage)
    IN IF \E j \in 1..Len(non_empty) : non_empty[j] = history_idx
       THEN Some((CHOOSE j \in 1..Len(non_empty) : non_empty[j] = history_idx) - 1)
       ELSE None

\* size_str and how its computation ends (run.py 152-167)
LayerChoice_size_str(pimage, history_idx) ==
    LET history_item == pimage.history[history_idx]
        layer_idx == LayerChoice_layer_idx(pimage, history_idx)
    IN IF history_item.empty_layer THEN [raised |-> "none", size_str |-> format_size(0)]
       ELSE IF layer_idx = None THEN [raised |-> "Exception", size_str |-> ""]
       ELSE IF layer_idx[1] + 1 > Len(pimage.layers)
       THEN [raised |-> "IndexError", size_str |-> ""]
       ELSE [raised |-> "none",
             size_str |-> format_size(pimage.layers[layer_idx[1] + 1].size)]

\* a label cut to 25 characters before the dots are added
LayerChoice_history_label_long(pimage, history_idx) ==
    LET history_label == clean_created_by(pimage.history[history_idx].created_by)
    IN IF Len(history_label) > 25
       THEN SubSeq(history_label, 1, 25) \o CodePoints("...") ELSE history_label

\* history_label (run.py 169-171)
LayerChoice_history_label(pimage, history_idx) ==
    LET history_label == clean_created_by(pimage.history[history_idx].created_by)
    IN IF Len(history_label) > 25
       THEN SubSeq(history_label, 1, 22) \o CodePoints("...") ELSE history_label

\* [history_label, (size_str, urwid.RIGHT)]
LayerChoice_contents == <<PlainContent, TupleContent("str")>>

\* LayerChoice(pimage, history_idx): what the constructor computed and the
\* exception that left it
LayerChoice(pimage, history_idx) ==
    LET size == LayerChoice_size_str(pimage, history_idx)
    IN IF size.raised # "none"
       THEN [op |-> "LayerChoice", history_idx |-> history_idx, size_str |-> "",
             history_label |-> <<>>, raised |-> size.raised]
       ELSE [op |-> "LayerChoice", history_idx |-> history_idx,
             size_str |-> size.size_str,
             history_label |-> LayerChoice_history_label(pimage, history_idx),
             raised |-> IF BetterSelectableRow_raises(LayerChoice_contents)
                        THEN "AttributeError" ELSE "none"]

InitLayers ==
    /\ registry \in Pimages
    /\ app = <<>>
    /\ exc = "none"
    /\ event = [op |-> "start", history_idx |-> 0, size_str |-> "",
                history_label |-> <<>>, raised |-> "none"]
    /\ twin = <<>>

\* one call of the constructor, for any index of the history
MakeLayerChoice ==
    /\ \E history_idx \in 1..Len(registry.history) :
          /\ event' = LayerChoice(registry, history_idx)
          /\ exc' = event'.raised
    /\ UNCHANGED <<registry, app, twin>>

NextLayers == MakeLayerChoice

SpecLayers == InitLayers /\ [][NextLayers]_vars

-----------------------------------------------------------------------------
(* ResettableFrame (run.py 413-446) as a specification of its own: `app` is *)
(* one frame, built with any kind of header and of footer, whose body and   *)
(* texts change and which is reset.                                         *)

\* the widgets a frame can be given as header or footer: none, a Text, a
\* ChangingText
HeaderWidgets == <<NoWidget, Text("Header"), ChangingText("Heading", "Heading: ")>>
FooterWidgets == <<NoWidget, Text("Footer"), ChangingText("Footing", "Footing: ")>>

\* the texts a widget of the frame is set to
FrameTexts == <<"Header", "Footer", "x", "">>

\* the bodies a frame is given after construction: a menu, another menu
FrameBodies == <<1, 2>>

FrameEvent(op) == [op |-> op]

InitFrame ==
    /\ registry = <<>>
    /\ \E h \in 1..Len(HeaderWidgets), f \in 1..Len(FooterWidgets) :
          app = ResettableFrame(SolidFill, HeaderWidgets[h], FooterWidgets[f])
    /\ exc = "none"
    /\ event = FrameEvent("start")
    /\ twin = <<>>

\* frame.body = menu
SetBody ==
    /\ \E b \in 1..Len(FrameBodies) : app' = [app EXCEPT !.body = FrameBodies[b]]
    /\ event' = FrameEvent("body")
    /\ UNCHANGED <<registry, exc, twin>>

\* unwrap(frame.header).set_text(...)
SetHeaderText ==
    /\ app.header.kind # "none"
    /\ \E t \in 1..Len(FrameTexts) : app' = [app EXCEPT !.header = set_text(@, FrameTexts[t])]
    /\ event' = FrameEvent("header")
    /\ UNCHANGED <<registry, exc, twin>>

\* unwrap(frame.footer).set_text(...)
SetFooterText ==
    /\ app.footer.kind # "none"
    /\ \E t \in 1..Len(FrameTexts) : app' = [app EXCEPT !.footer = set_text(@, FrameTexts[t])]
    /\ event' = FrameEvent("footer")
    /\ UNCHANGED <<registry, exc, twin>>

\* frame.reset()
ResetFrame ==
    /\ app' = ResettableFrame_reset(app)
    /\ event' = FrameEvent("reset")
    /\ UNCHANGED <<registry, exc, twin>>

NextFrame ==
    \/ SetBody
    \/ SetHeaderText
    \/ SetFooterText
    \/ ResetFrame

SpecFrame == InitFrame /\ [][NextFrame]_vars

-----------------------------------------------------------------------------
(* The choice of the platform images to show (run.py 297-308) as a          *)
(* specification of its own: `registry` holds DREG_PREFERRED_PLATFORM and   *)
(* what get_platform_images() returns, `event` the sequence chosen.         *)

MaxPimages == 3     \* platform images of one image

Platforms == <<"linux/amd64", "linux/arm64">>

\* unset, one of the platforms of the images, or a platform no image has
PreferredPlatforms == <<None, Some("linux/amd64"), Some("linux/arm64"), Some("linux/s390x")>>

\* image.get_platform_images(): any platforms, in any order, repeats included
PimageLists ==
    UNION {{[i \in 1..n |-> [image |-> <<1, 1, 1>>, index |-> i, platform |-> Platforms[f[i]]]] :
                f \in [1..n -> 1..Len(Platforms)]} :
           n \in 0..MaxPimages}

InitPimages ==
    /\ \E p \in 1..Len(PreferredPlatforms), all \in PimageLists :
          registry = [preferred_platform |-> PreferredPlatforms[p], pimages |-> all]
    /\ app = <<>>
    /\ exc = "none"
    /\ event = [op |-> "start", pimages |-> <<>>]
    /\ twin = <<>>

\* run.py 297-308
ChoosePimages ==
    /\ event.op = "start"
    /\ event' = [op |-> "pimages",
                 pimages |-> SelectPimages(registry.preferred_platform, registry.pimages)]
    /\ UNCHANGED <<registry, app, exc, twin>>

NextPimages == ChoosePimages

SpecPimages == InitPimages /\ [][NextPimages]_vars

-----------------------------------------------------------------------------
(* PlatformChoice (run.py 187-264): the handlers of a platform row.  The    *)
(* layer menu and the viewer are held by the one Columns that _open_menu    *)
(* puts in layers_frame and by nothing else, so they are one heap entry:    *)
(* the menu with its rows and the text the viewer shows.                    *)

\* pimage.config.history and pimage.layers of a platform image of the
\* registry: the p-th image of a tag has p history entries
PimageOf(key) ==
    [history |-> [i \in 1..key.index |->
                     [created_by |-> CreatedBys[((i - 1) % Len(CreatedBys)) + 1],
                      empty_layer |-> i % 2 = 0]],
     layers |-> [k \in 1..((key.index + 1) \div 2) |-> Layer(k)]]

\* _make_view_text(idx): the text, or the IndexError of history[idx]
PlatformChoice__make_view_text(pimage, idx) ==
    IF idx + 1 > Len(pimage.history) THEN [raised |-> "IndexError", text |-> <<>>]
    ELSE [raised |-> "none", text |-> clean_created_by(pimage.history[idx + 1].created_by)]

PlatformChoice__open_menu(s, node, menu, viewer) ==
    LET s1 == [s EXCEPT !.layers_frame.body = menu]
    IN [s1 EXCEPT !.display_focus = LayersPos]

\* layer_selection_change(_prev_idx, new_idx)
PlatformChoice_layer_selection_change(s, node, new_idx) ==
    LET self == NodeAt(s, node)
        viewer == self.viewer
        new_view == PlatformChoice__make_view_text(PimageOf(self.key), new_idx)
    IN IF ~Resolvable(s, viewer) THEN [app |-> s, exc |-> "none"]
       ELSE IF new_view.raised # "none" THEN [app |-> s, exc |-> new_view.raised]
       ELSE [app |-> [s EXCEPT !.heap[viewer].viewer = new_view.text], exc |-> "none"]

\* the exception that ends the construction of the layer rows, "none" if
\* every row is constructed
LayerChoices_raised(pimage) ==
    IF pimage.history = <<>> THEN "none" ELSE LayerChoice(pimage, 1).raised

PlatformChoice_open_menu(s, reg, node, fails) ==
    LET self == NodeAt(s, node)
        menu == self.menu
        viewer == self.viewer
        pimage == PimageOf(self.key)
    IN IF Resolvable(s, menu) /\ Resolvable(s, viewer)
       THEN Outcome(PlatformChoice__open_menu(s, node, menu, viewer), "none", <<>>, 0, TRUE)
       ELSE IF LayerChoices_raised(pimage) # "none"
       THEN Outcome(s, LayerChoices_raised(pimage), <<>>, 0, FALSE)
       ELSE IF PlatformChoice__make_view_text(pimage, 0).raised # "none"
       THEN Outcome(s, PlatformChoice__make_view_text(pimage, 0).raised, <<>>, 0, FALSE)
       ELSE LET choices == [i \in 1..Len(pimage.history) |->
                               [class |-> "LayerChoice",
                                key |-> <<self.key, i>>, menu |-> NoMenu]]
                actual_menu == NewId(s.heap, self.key.image \o <<self.key.index>>)
                initial_view == PlatformChoice__make_view_text(pimage, 0)
                s1 == [s EXCEPT !.heap =
                          Alloc(@, actual_menu,
                                [rows |-> choices, focus |-> 0, owner |-> node,
                                 viewer |-> initial_view.text])]
                s2 == [s1 EXCEPT !.heap[node[1]].rows[node[2]].menu = actual_menu,
                                 !.heap[node[1]].rows[node[2]].viewer = actual_menu]
            IN Outcome(PlatformChoice__open_menu(s2, node, actual_menu, actual_menu),
                       "none", <<>>, Len(choices), FALSE)

-----------------------------------------------------------------------------
(* PileMenu (run.py 449-472): the heights given to the stacked menus.       *)
(* registry holds screen_rows and the number of widgets of widget_list, app *)
(* the pile under construction, event what the constructor left.            *)

MaxRows == 16

MaxWidgets == 4

PileMenu_menu_height(screen_rows, widget_count) == screen_rows \div widget_count

PileMenu_reduce_height_pool_without_dividers(screen_rows, widget_count) ==
    screen_rows - (widget_count * PileMenu_menu_height(screen_rows, widget_count))

PileMenu_reduce_height_pool(screen_rows, widget_count) ==
    screen_rows - (widget_count * PileMenu_menu_height(screen_rows, widget_count))
        - (widget_count - 1)

\* the options of an entry of Pile.contents: (GIVEN, height) or (WEIGHT, 1)
GivenOptions(height) == [sizing |-> "given", amount |-> height]

WeightOptions(weight) == [sizing |-> "weight", amount |-> weight]

\* the loop of run.py 458-470 from iteration i on; zip_longest pairs every
\* widget but the last with a divider
RECURSIVE PileMenu_loop(_, _, _, _, _)
PileMenu_loop(i, widget_count, menu_height, reduce_height_pool, contents) ==
    IF i >= widget_count
    THEN [contents |-> contents, reduce_height_pool |-> reduce_height_pool,
          focus_position |-> 0]
    ELSE LET reduced == reduce_height_pool < 0
             height == IF reduced THEN menu_height - 1 ELSE menu_height
             pool == IF reduced THEN reduce_height_pool + 1 ELSE reduce_height_pool
             with_menu == Append(contents, GivenOptions(height))
             with_divider == IF i < widget_count - 1
                             THEN Append(with_menu, WeightOptions(1))
                             ELSE with_menu
         IN PileMenu_loop(i + 1, widget_count, menu_height, pool, with_divider)

PileMenu(screen_rows, widget_count) ==
    PileMenu_loop(0, widget_count,
                  PileMenu_menu_height(screen_rows, widget_count),
                  PileMenu_reduce_height_pool(screen_rows, widget_count), <<>>)

InitPile ==
    /\ registry \in [screen_rows : 1..MaxRows, widget_count : 1..MaxWidgets]
    /\ app = [contents |-> <<>>, reduce_height_pool |-> 0, focus_position |-> 0]
    /\ exc = "none"
    /\ event = [op |-> "start"]
    /\ twin = <<>>

MakePileMenu ==
    /\ event.op = "start"
    /\ app' = PileMenu(registry.screen_rows, registry.widget_count)
    /\ event' = [op |-> "PileMenu"]
    /\ UNCHANGED <<registry, exc, twin>>

NextPile == MakePileMenu

SpecPile == InitPile /\ [][NextPile]_vars

-----------------------------------------------------------------------------
(* Claims *)

\* the frames as module load built them
Original == Startup(registry)

\* C1: after a completed selection every pane deeper than the selected level
\* is as it was built: a namespace selection leaves the tags, platforms and
\* layers frames and the display header original, a repository selection the
\* platforms and layers frames and the display header, a tag selection the
\* layers frame.
C1_DeeperPanesReset ==
    (event.done /\ Selection(event.op)) =>
        /\ app.layers_frame = Original.layers_frame
        /\ (event.op = "NamespaceMenu" \/ event.op = "RepositoryMenu") =>
              /\ app.platforms_frame = Original.platforms_frame
              /\ app.display_frame = Original.display_frame
        /\ event.op = "NamespaceMenu" =>
              app.tags_frame = Original.tags_frame

\* a namespace other than the one shown was selected while the panes were
\* filled down to the platforms pane
C1_Witness ==
    /\ event.done /\ event.op = "NamespaceMenu"
    /\ ~event.cached
    /\ event.depth = 3

\* every registry call an activation can make, for the choice of one to fail
Failures == <<"none", "repositories", "tags", "get_image", "get_platform_images">>

\* C2: a row whose activation completed, activated again at once, installs
\* the very menu the first activation installed and asks the registry
\* nothing: no call is made, no row is constructed, no menu is allocated.
C2_SecondActivationServesCache ==
    (event.done /\ Selection(event.op)) =>
        \A k \in 1..Len(Failures) :
            LET again == open_menu(app, registry, event.node, Failures[k])
            IN /\ again.exc = "none"
               /\ again.hit /\ again.calls = <<>> /\ again.built = 0
               /\ PaneOf(again.app, event.op).body = PaneOf(app, event.op).body
               /\ NodeAt(again.app, event.node).menu = NodeAt(app, event.node).menu
               /\ DOMAIN again.app.heap = DOMAIN app.heap

\* a tag was activated and served from its cache
C2_Witness ==
    event.done /\ event.op = "TagChoice" /\ event.hit

\* C3: a namespace or repository row activated while its reference does not
\* resolve builds a menu with exactly the registry's items for its key, in
\* the registry's order, shows it, and refers to it afterwards.
C3_MissBuildsFromRegistry ==
    (event.done /\ ~event.cached /\ (event.op = "NamespaceMenu" \/ event.op = "RepositoryMenu")) =>
        LET self == NodeAt(app, event.node)
            shown == PaneOf(app, event.op).body
            items == IF event.op = "NamespaceMenu"
                     THEN Repositories(registry, self.key)
                     ELSE Tags(registry, self.key)
        IN /\ ~event.hit
           /\ shown \in DOMAIN app.heap
           /\ self.menu = shown
           /\ app.heap[shown].owner = event.node
           /\ body_len(app.heap[shown]) = Len(items)
           /\ \A i \in 1..Len(items) : app.heap[shown].rows[i].key = items[i]

\* a repository with two tags was activated without a cached menu
C3_Witness ==
    /\ event.done /\ ~event.cached /\ event.op = "RepositoryMenu"
    /\ event.built = 2

\* C4: when the registry calls succeed, a tag activated without a cached
\* menu completes and the platforms pane shows one row per platform image.
C4_TagSelectionCompletes ==
    (event.op = "TagChoice" /\ ~event.cached /\ exc # "RegistryError") =>
        /\ exc = "none"
        /\ app.platforms_frame.body \in DOMAIN app.heap
        /\ body_len(app.heap[app.platforms_frame.body])
              = Len(PlatformImages(registry, NodeAt(app, event.node).key))

\* C5: on the same keys and the same registry, the run that loses every
\* unshown menu and the run that keeps them show the same screen after every
\* action (rows, selected rows, headings, footers, focus) and end alike.
C5_ReclamationUnobservable ==
    /\ twin.exc = exc
    /\ View(twin.app) = View(app)
    /\ FocusPane(twin.app) = FocusPane(app)

\* a repository with tags was served from the cache in the run that keeps
\* its menus and rebuilt in the run that loses them
C5_Witness ==
    /\ event.done /\ event.op = "RepositoryMenu"
    /\ event.hit /\ ~twin.hit
    /\ View(app).tags.rows # <<>>
    /\ DOMAIN twin.app.heap # DOMAIN app.heap

\* the row objects of the live menus
Nodes(s) == UNION {{<<m, i>> : i \in 1..body_len(s.heap[m])} : m \in DOMAIN s.heap}

\* C6: no two live menus were built for the same row, no two rows refer to
\* the same menu, and a row builds a menu only when its reference does not
\* resolve.
C6_OneLiveMenuPerNode ==
    /\ \A m1, m2 \in DOMAIN app.heap :
          (app.heap[m1].owner # NoOwner /\ app.heap[m1].owner = app.heap[m2].owner)
              => m1 = m2
    /\ \A n1, n2 \in Nodes(app) :
          (n1 # n2 /\ Resolvable(app, NodeAt(app, n1).menu))
              => NodeAt(app, n1).menu # NodeAt(app, n2).menu
    /\ (event.done /\ ~event.hit) => ~event.cached

\* a row built a menu while two unshown menus were still live, one of them
\* still referred to by its row
C6_Witness ==
    /\ event.done /\ ~event.hit
    /\ Cardinality(Garbage(app)) >= 2
    /\ \E n \in Nodes(app) : NodeAt(app, n).menu \in Garbage(app)

\* C7: a failing registry call leaves open_menu with nothing changed, and
\* nothing runs once an exception has left the main loop.
C7_FailedQueryChangesNothing ==
    [][/\ exc = "none"
       /\ exc' = "RegistryError" => (app' = app /\ ~event'.done /\ event'.calls # <<>>)]_vars

\* a registry call failed while the panes were filled down to the tags pane
C7_Witness ==
    exc = "RegistryError" /\ event.depth >= 2

\* C8: activating the row again at once leaves the screen as the first
\* activation left it.
C8_SelectionIdempotent ==
    (event.done /\ Selection(event.op)) =>
        \A k \in 1..Len(Failures) :
            LET again == open_menu(app, registry, event.node, Failures[k])
            IN again.exc = "none" /\ View(again.app) = View(app)

\* a repository with tags was activated without a cached menu
C8_Witness ==
    /\ event.done /\ event.op = "RepositoryMenu"
    /\ ~event.cached /\ event.built >= 1

\* C9: after a completed selection the focus is on the pane it filled.
C9_FocusOnFilledPane ==
    (event.done /\ Selection(event.op)) =>
        FocusPane(app) = CASE event.op = "NamespaceMenu" -> "images"
                           [] event.op = "RepositoryMenu" -> "tags"
                           [] event.op = "TagChoice" -> "platforms"

\* a tag was selected, and a repository was selected after the focus had
\* been in the display column
C9_Witness ==
    \/ event.done /\ event.op = "TagChoice"
    \/ event.done /\ event.op = "RepositoryMenu" /\ event.depth = 3

\* the summary the claim expects for a menu of n items
ClaimedSummary(n, singular, plural) ==
    IF n = 1 THEN "1 " \o singular ELSE Str(n) \o " " \o plural

\* C10: every item count shown reads "1 <noun>" for one item and
\* "<n> <plural>" otherwise, n being the rows of the menu in that pane.
C10_SummariesAgreeInNumber ==
    /\ app.namespaces_frame.footer.text =
          ClaimedSummary(body_len(app.heap[app.namespaces_frame.body]),
                         "namespace", "namespaces")
    /\ app.images_frame.body # ImagesEmptyId =>
          app.images_frame.footer.text =
              ClaimedSummary(body_len(app.heap[app.images_frame.body]), "image", "images")
    /\ app.tags_frame.body # TagsEmptyId =>
          app.tags_frame.footer.text =
              ClaimedSummary(body_len(app.heap[app.tags_frame.body]), "tag", "tags")

\* the number of history entries before entry i that are not empty layers
NonEmptyBefore(pimage, i) ==
    Cardinality({j \in 1..(i - 1) : ~pimage.history[j].empty_layer})

\* a platform image with as many non-empty history entries as layers
Consistent(pimage) == Len(non_empty_history(pimage)) = Len(pimage.layers)

\* C11: for a platform image with as many non-empty history entries as
\* layers, the size shown for an empty-layer entry is "0 B" and the size shown
\* for any other entry i is that of layer k, k the number of non-empty entries
\* before i; neither "Logic failure" nor an index error ends the computation.
C11_SizeOfMatchingLayer ==
    (event.op = "LayerChoice" /\ Consistent(registry)) =>
        LET i == event.history_idx
            k == NonEmptyBefore(registry, i)
        IN /\ event.raised # "Exception" /\ event.raised # "IndexError"
           /\ registry.history[i].empty_layer => event.size_str = "0 B"
           /\ ~registry.history[i].empty_layer =>
                 event.size_str = format_size(registry.layers[k + 1].size)

\* the third entry follows a non-empty and an empty one and shows the size of
\* the second layer, the first entry shows "2 KiB"
C11_Witness ==
    /\ event.op = "LayerChoice" /\ Consistent(registry)
    /\ event.history_idx = 3
    /\ ~registry.history[1].empty_layer
    /\ registry.history[2].empty_layer
    /\ ~registry.history[3].empty_layer
    /\ event.size_str = "1.5 KiB"
    /\ LayerChoice(registry, 1).size_str = "2 KiB"

\* C12: the label of a row is the cleaned created_by when that has at most 25
\* characters, else its first 22 characters and "..."; it never has more than
\* 25 characters and has exactly 25 when it was cut.
C12_LabelCutTo25 ==
    (event.op = "LayerChoice" /\ event.raised # "Exception" /\ event.raised # "IndexError") =>
        LET cleaned == clean_created_by(registry.history[event.history_idx].created_by)
        IN /\ Len(cleaned) <= 25 => event.history_label = cleaned
           /\ Len(cleaned) > 25 =>
                 /\ event.history_label = SubSeq(cleaned, 1, 22) \o CodePoints("...")
                 /\ Len(event.history_label) = 25
           /\ Len(event.history_label) <= 25

\* a cleaned text of 26 characters was cut
C12_Witness ==
    /\ event.op = "LayerChoice"
    /\ Len(clean_created_by(registry.history[event.history_idx].created_by)) = 26
    /\ event.history_label = CodePoints("RUN apt-get install cu...")

\* whether a pane shows something other than what it was built with
Populated(s, pane) ==
    CASE pane = "images" -> s.images_frame.body # ImagesEmptyId
      [] pane = "tags" -> s.tags_frame.body # s.tags_frame.orig_body
      [] pane = "platforms" -> s.platforms_frame.body # s.platforms_frame.orig_body
      [] pane = "layers" -> s.layers_frame.body # s.layers_frame.orig_body

\* the row whose activation built the menu a frame shows
ShownNode(s, f) == s.heap[f.body].owner

\* C13: the populated panes form a chain (layers only under platforms, platforms
\* only under tags, tags only under images), the menu of each populated pane
\* was built for a row of the menu shown one pane up and its key extends that
\* row's parent key, and a heading shows its default text exactly when its
\* pane is not populated and the text formatted from the key otherwise.
C13_PanesFormChain ==
    /\ Populated(app, "layers") => Populated(app, "platforms")
    /\ Populated(app, "platforms") => Populated(app, "tags")
    /\ Populated(app, "tags") => Populated(app, "images")
    /\ Populated(app, "images") =>
          /\ app.images_frame.body \in DOMAIN app.heap
          /\ ShownNode(app, app.images_frame)[1] = app.namespaces_frame.body
          /\ app.images_frame.header.text =
                "Images: " \o NsName(NodeAt(app, ShownNode(app, app.images_frame)).key)
          /\ \A i \in 1..body_len(app.heap[app.images_frame.body]) :
                <<app.heap[app.images_frame.body].rows[i].key[1]>> =
                    NodeAt(app, ShownNode(app, app.images_frame)).key
    /\ ~Populated(app, "images") => app.images_frame.header.text = "Images"
    /\ Populated(app, "tags") =>
          /\ app.tags_frame.body \in DOMAIN app.heap
          /\ ShownNode(app, app.tags_frame)[1] = app.images_frame.body
          /\ app.tags_frame.header.text =
                "Tags: " \o RepoName(NodeAt(app, ShownNode(app, app.tags_frame)).key)
          /\ \A i \in 1..body_len(app.heap[app.tags_frame.body]) :
                LET tag == app.heap[app.tags_frame.body].rows[i].key
                IN <<tag[1], tag[2]>> = NodeAt(app, ShownNode(app, app.tags_frame)).key
    /\ ~Populated(app, "tags") => app.tags_frame.header.text = "Tags"
    /\ Populated(app, "platforms") =>
          /\ app.platforms_frame.body \in DOMAIN app.heap
          /\ ShownNode(app, app.platforms_frame)[1] = app.tags_frame.body
          /\ LET tag == NodeAt(app, ShownNode(app, app.platforms_frame)).key
             IN app.display_frame.header.text =
                    RepoName(<<tag[1], tag[2]>>) \o " - " \o TagName(tag)
    /\ ~Populated(app, "platforms") => app.display_frame.header.text = ""

\* a namespace was selected while the panes were filled down to the platforms
\* pane under another namespace, and its repositories are shown
C13_Witness ==
    /\ event.done /\ event.op = "NamespaceMenu" /\ event.depth = 3
    /\ event.node[2] = 2
    /\ Populated(app, "images") /\ ~Populated(app, "tags")
    /\ body_len(app.heap[app.images_frame.body]) >= 1

\* the text a header or footer widget was constructed with
ConstructionText(w) == IF w.kind = "ChangingText" THEN w.initial_markup ELSE w.text

\* the frame as its constructor left it, for the widgets this frame has
AsConstructed(f) ==
    [body |-> f.orig_body,
     header |-> CASE f.header.kind = "none" -> ""
                  [] f.header.kind = "Text" -> HeaderWidgets[2].text
                  [] OTHER -> f.header.initial_markup,
     footer |-> CASE f.footer.kind = "none" -> ""
                  [] f.footer.kind = "Text" -> FooterWidgets[2].text
                  [] OTHER -> f.footer.initial_markup]

\* C14: for every kind of header and footer, reset() leaves the body, the
\* header text and the footer text as the constructor left them.
C14_ResetRestoresFrame ==
    event.op = "reset" =>
        /\ app.body = AsConstructed(app).body
        /\ app.header.text = AsConstructed(app).header
        /\ app.footer.text = AsConstructed(app).footer

\* how often x occurs in the sequence q
Occurrences(q, x) == Cardinality({i \in 1..Len(q) : q[i] = x})

\* C15: the platform images chosen for display are a permutation of what
\* get_platform_images() returned: unchanged when no platform is preferred,
\* else the images of the preferred platform first and all others after them
\* in their original order.
C15_ChosenIsPermutation ==
    event.op = "pimages" =>
        LET all == registry.pimages
            chosen == event.pimages
            preferred == registry.preferred_platform
        IN /\ Len(chosen) = Len(all)
           /\ \A i \in 1..Len(all) : Occurrences(chosen, all[i]) = 1
           /\ preferred = None => chosen = all
           /\ preferred # None =>
                 chosen = SelectSeq(all, LAMBDA p : p.platform = preferred[1])
                             \o SelectSeq(all, LAMBDA p : p.platform # preferred[1])

\* C16: once a tag with platform images has been activated, its platform rows
\* can be activated, and an activation leaves the layers pane populated with
\* a viewer that shows the cleaned created_by of the history entry at the
\* selected row of the layer menu: entry 0 after a first build, the entry of
\* the new row after a selection change, the same entry after a re-activation.
C16_ViewerShowsSelectedEntry ==
    (/\ event.op = "TagChoice" /\ ~event.cached /\ exc # "RegistryError"
     /\ Len(PlatformImages(registry, NodeAt(app, event.node).key)) >= 1) =>
        /\ exc = "none"
        /\ app.platforms_frame.body \in DOMAIN app.heap
        /\ \A p \in 1..body_len(app.heap[app.platforms_frame.body]) :
              LET node == <<app.platforms_frame.body, p>>
                  pimage == PimageOf(NodeAt(app, node).key)
                  out == PlatformChoice_open_menu(app, registry, node, "none")
                  shown == out.app.layers_frame.body
                  change == PlatformChoice_layer_selection_change(
                                [out.app EXCEPT !.heap[shown].focus = Len(pimage.history) - 1],
                                node, Len(pimage.history) - 1)
                  moved == change.app
                  again == PlatformChoice_open_menu(moved, registry, node, "none")
              IN /\ out.exc = "none"
                 /\ shown \in DOMAIN out.app.heap
                 /\ out.app.heap[shown].focus = 0
                 /\ out.app.heap[shown].viewer =
                        clean_created_by(pimage.history[1].created_by)
                 /\ change.exc = "none"
                 /\ moved.heap[shown].viewer =
                        clean_created_by(pimage.history[Len(pimage.history)].created_by)
                 /\ again.hit /\ again.app.layers_frame.body = shown
                 /\ again.app.heap[shown].viewer = moved.heap[shown].viewer

\* the heights of the menus of a pile, in the order of the menus
MenuHeights(contents) ==
    LET menus == SelectSeq(contents, LAMBDA c : c.sizing = "given")
    IN [k \in 1..Len(menus) |-> menus[k].amount]

\* the dividers of a pile
Dividers(contents) == SelectSeq(contents, LAMBDA c : c.sizing = "weight")

RECURSIVE SumSeq(_)
SumSeq(seq) == IF seq = <<>> THEN 0 ELSE Head(seq) + SumSeq(Tail(seq))

\* C17: for every screen height R and every number n >= 1 of menus, the pile
\* holds n menus and n - 1 dividers, every menu height is floor(R / n) or
\* floor(R / n) - 1, no reduced height follows a full one, the heights and
\* one row for each divider add up to R, and no reduction is left pending.
C17_HeightsFillScreen ==
    event.op = "PileMenu" =>
        LET R == registry.screen_rows
            n == registry.widget_count
            heights == MenuHeights(app.contents)
        IN /\ Len(heights) = n
           /\ Len(Dividers(app.contents)) = n - 1
           /\ \A k \in 1..n : heights[k] = R \div n \/ heights[k] = (R \div n) - 1
           /\ \A j, k \in 1..n : (j < k /\ heights[k] = (R \div n) - 1)
                                    => heights[j] = (R \div n) - 1
           /\ SumSeq(heights) + (n - 1) = R
           /\ app.reduce_height_pool = 0

\* ten rows for three menus: the first menu gives up a row, the others keep
\* three
C17_Witness ==
    /\ event.op = "PileMenu"
    /\ registry.screen_rows = 10 /\ registry.widget_count = 3
    /\ MenuHeights(app.contents) = <<2, 3, 3>>
    /\ app.reduce_height_pool = 0


====
